---- MODULE Spec2Model ----
(***************************************************************************)
(* A model of src/product_lister.py: the three catalogue adapters          *)
(* (scrape_woocommerce, scrape_shopify, scrape_generic), the pagination    *)
(* discoverer _last_page and the helpers they call.                        *)
(*                                                                         *)
(* Text is a sequence of one-character strings, so that str.isdigit, int,  *)
(* str.strip, re.search and float are computed character by character.     *)
(* A network fetch answers nondeterministically: FetchError (requests      *)
(* raised: timeout, connection error) or a body.  requests.get does not    *)
(* raise on a non-success status (the code never calls raise_for_status),  *)
(* so such an answer is a body like any other.                             *)
(***************************************************************************)
EXTENDS Integers, Sequences, FiniteSets, TLC

VARIABLES adapter, args, pc, loc, rows, exc, requests, responses, stdout

vars == <<adapter, args, pc, loc, rows, exc, requests, responses, stdout>>

----------------------------------------------------------------------------
(* Bounds of the model.                                                    *)

\* links in a pager, and characters in one link's text (_last_page inputs)
MaxLinks == 2
MaxLabelLen == 2
\* product cards on one fetched catalogue page (scrape_woocommerce)
MaxCards == 1
\* product cards on the page scrape_generic reads
MaxGenericCards == 3
\* largest caller page limit (--pages)
MaxLimit == 3
\* variants in one product payload
MaxVariants == 2

----------------------------------------------------------------------------
(* Python values.                                                          *)

\* an optional value: None, or Some(v) whose value is v[1]
None == <<>>
Some(v) == <<v>>
\* no exception has ended the call
NoException == "NoException"

\* what a call returns: a value, or the exception it raised
Ok(v) == [ok |-> TRUE, val |-> v]
Raise(e) == [ok |-> FALSE, exc |-> e]

\* requests.get raised (timeout, connection error, ...)
FetchError == Raise("ConnectionError")
\* BeautifulSoup could not build a tree from the body
ParseError == Raise("ParserRejectedMarkup")

RECURSIVE SeqsUpTo(_, _)
\* every sequence over S of length at most n
SeqsUpTo(S, n) ==
    IF n = 0 THEN {<<>>}
    ELSE LET shorter == SeqsUpTo(S, n - 1)
         IN  shorter \cup {Append(s, x) : s \in {t \in shorter : Len(t) = n - 1}, x \in S}

----------------------------------------------------------------------------
(* Characters and the str / re / float operations the code applies.        *)

\* ASCII decimal digits: str.isdigit is true of them and int() reads them
DecimalDigits == {"0", "1", "2", "3", "4", "5", "6", "7", "8", "9"}
\* digits such as superscript two: str.isdigit is true of them, int() and
\* the regex class \d reject them
OtherDigits == {"sup2"}
Whitespace == {" "}

DigitValue(c) ==
    CASE c = "0" -> 0 [] c = "1" -> 1 [] c = "2" -> 2 [] c = "3" -> 3
      [] c = "4" -> 4 [] c = "5" -> 5 [] c = "6" -> 6 [] c = "7" -> 7
      [] c = "8" -> 8 [] c = "9" -> 9

DigitChar(d) ==
    CASE d = 0 -> "0" [] d = 1 -> "1" [] d = 2 -> "2" [] d = 3 -> "3"
      [] d = 4 -> "4" [] d = 5 -> "5" [] d = 6 -> "6" [] d = 7 -> "7"
      [] d = 8 -> "8" [] d = 9 -> "9"

\* str.isdigit(): non-empty and every character a digit character
isdigit(t) == Len(t) > 0 /\ \A i \in 1..Len(t) : t[i] \in DecimalDigits \cup OtherDigits

RECURSIVE DecimalValue(_)
\* the base-10 value of a string of ASCII decimal digits
DecimalValue(t) ==
    IF t = <<>> THEN 0
    ELSE 10 * DecimalValue(SubSeq(t, 1, Len(t) - 1)) + DigitValue(t[Len(t)])

\* int(t) for a t that passed isdigit(): ValueError on a non-decimal digit
int(t) ==
    IF \E i \in 1..Len(t) : t[i] \notin DecimalDigits
    THEN Raise("ValueError")
    ELSE Ok(DecimalValue(t))

RECURSIVE str(_)
\* str(n) for n >= 0
str(n) == IF n < 10 THEN <<DigitChar(n)>> ELSE str(n \div 10) \o <<DigitChar(n % 10)>>

RECURSIVE lstrip(_)
lstrip(t) == IF t # <<>> /\ t[1] \in Whitespace THEN lstrip(Tail(t)) ELSE t

RECURSIVE rstrip(_)
rstrip(t) ==
    IF t # <<>> /\ t[Len(t)] \in Whitespace THEN rstrip(SubSeq(t, 1, Len(t) - 1)) ELSE t

\* str.strip(), and get_text(strip=True) of an element with one text node
strip(t) == rstrip(lstrip(t))

\* the characters of the regex class [\d,.]
PriceChars == DecimalDigits \cup {",", "."}

\* re.search(r"[\d,.]+", t): the leftmost, longest run, or None
re_search(t) ==
    IF \A i \in 1..Len(t) : t[i] \notin PriceChars THEN None
    ELSE LET first == CHOOSE i \in 1..Len(t) :
                          t[i] \in PriceChars /\ \A j \in 1..(i - 1) : t[j] \notin PriceChars
             last  == CHOOSE k \in first..Len(t) :
                          /\ \A j \in first..k : t[j] \in PriceChars
                          /\ (k = Len(t) \/ t[k + 1] \notin PriceChars)
         IN  Some(SubSeq(t, first, last))

RECURSIVE replace_comma(_)
\* s.replace(",", "")
replace_comma(s) ==
    IF s = <<>> THEN <<>>
    ELSE IF s[1] = "," THEN replace_comma(Tail(s)) ELSE <<s[1]>> \o replace_comma(Tail(s))

RECURSIVE Pow10(_)
Pow10(k) == IF k = 0 THEN 1 ELSE 10 * Pow10(k - 1)

\* float(s) of a string of digits and dots: the decimal n / d, kept exact
\* (n the digits read as one integer, d the power of ten of the fraction);
\* ValueError unless s is digits with at most one dot and at least one digit
float(s) ==
    LET dots   == {i \in 1..Len(s) : s[i] = "."}
        digits == SelectSeq(s, LAMBDA c : c \in DecimalDigits)
    IN  IF Cardinality(dots) > 1 \/ digits = <<>>
           \/ \E i \in 1..Len(s) : s[i] \notin DecimalDigits \cup {"."}
        THEN Raise("ValueError")
        ELSE LET frac == IF dots = {} THEN 0 ELSE Len(s) - (CHOOSE i \in dots : TRUE)
             IN  Ok([n |-> DecimalValue(digits), d |-> Pow10(frac)])

\* float(re.search(r"[\d,.]+", text).group().replace(",", "")): lines 92, 134
parse_price(text) ==
    LET m == re_search(text)
    IN  IF m = None THEN Raise("AttributeError") ELSE float(replace_comma(m[1]))

----------------------------------------------------------------------------
(* URLs.  A URL is [origin, path, query]: origin the scheme and host, path *)
(* the sequence of its segments ("/shop/" is <<"shop", "">>), query a      *)
(* sequence of <<key, value>> pairs, a value being text.  An href is a URL *)
(* reference: absolute, rooted ("/p/tee"), relative ("p/tee") or empty.    *)

Url(origin, path, query) == [origin |-> origin, path |-> path, query |-> query]

AbsRef(u) == [kind |-> "abs", url |-> u]
RootRef(path) == [kind |-> "root", path |-> path]
RelRef(path) == [kind |-> "rel", path |-> path]
EmptyRef == [kind |-> "empty"]

\* urllib.parse.urljoin(base, ref) for references without "." or ".."
urljoin(base, ref) ==
    CASE ref.kind = "abs"   -> ref.url
      [] ref.kind = "root"  -> Url(base.origin, ref.path, <<>>)
      [] ref.kind = "rel"   ->
            Url(base.origin,
                (IF base.path = <<>> THEN <<>> ELSE SubSeq(base.path, 1, Len(base.path) - 1))
                    \o ref.path,
                <<>>)
      [] ref.kind = "empty" -> base

\* a URL with a scheme and a host
IsAbsolute(u) == u.origin # ""

\* parse_qs(query): key -> list of values, keys in order of first appearance;
\* a pair with a blank value is dropped (keep_blank_values is off)
parse_qs(query) ==
    LET kept == SelectSeq(query, LAMBDA kv : kv[2] # <<>>)
        keys == {kept[i][1] : i \in 1..Len(kept)}
        firstAt(k) == CHOOSE i \in 1..Len(kept) :
                          kept[i][1] = k /\ \A j \in 1..(i - 1) : kept[j][1] # k
        order == SelectSeq([i \in 1..Len(kept) |-> IF firstAt(kept[i][1]) = i
                                                    THEN kept[i][1] ELSE ""],
                           LAMBDA k : k # "")
    IN  [order |-> order,
         vals  |-> [k \in keys |->
                      LET mine == SelectSeq(kept, LAMBDA kv : kv[1] = k)
                      IN  [i \in 1..Len(mine) |-> mine[i][2]]]]

RECURSIVE urlencode(_, _)
\* urlencode(qs, doseq=True): one pair per value, keys in dictionary order
urlencode(order, vals) ==
    IF order = <<>> THEN <<>>
    ELSE [i \in 1..Len(vals[order[1]]) |-> <<order[1], vals[order[1]][i]>>]
             \o urlencode(Tail(order), vals)

\* _next_page_url(base, num): the query with paged set to str(num)
_next_page_url(base, num) ==
    LET qs    == parse_qs(base.query)
        order == IF "paged" \in DOMAIN qs.vals THEN qs.order ELSE Append(qs.order, "paged")
        vals  == [k \in DOMAIN qs.vals \cup {"paged"} |->
                     IF k = "paged" THEN <<str(num)>> ELSE qs.vals[k]]
    IN  [base EXCEPT !.query = urlencode(order, vals)]

\* the page a catalogue URL asks for: its paged parameter, page 1 without one
\* (how a WooCommerce listing reads the request)
PageOf(u) ==
    LET qs == parse_qs(u.query)
    IN  IF "paged" \in DOMAIN qs.vals /\ isdigit(qs.vals["paged"][Len(qs.vals["paged"])])
        THEN DecimalValue(qs.vals["paged"][Len(qs.vals["paged"])])
        ELSE 1

----------------------------------------------------------------------------
(* _last_page.  A parsed page (soup) is [cards, pager]: pager is None when *)
(* select_one finds no pager, else Some of the texts of the <a> elements   *)
(* inside the first matching element, in document order.                   *)

Max(S) == CHOOSE x \in S : \A y \in S : y <= x
Min(S) == CHOOSE x \in S : \A y \in S : x <= y

\* _last_page(soup): lines 74-77
_last_page(soup) ==
    LET links == IF soup.pager = None THEN <<>> ELSE SelectSeq(soup.pager[1], isdigit)
        nums  == {int(links[i]).val : i \in {j \in 1..Len(links) : int(links[j]).ok}}
    IN  IF \E i \in 1..Len(links) : ~int(links[i]).ok THEN Raise("ValueError")
        ELSE IF links = <<>> THEN Ok(1)
        ELSE Ok(Max(nums))

----------------------------------------------------------------------------
(* scrape_woocommerce.  A card (li.product) is                             *)
(*   [name_el, price_el, link, img, data_cat, class]                       *)
(* name_el / price_el: Some text of the selected element, None without     *)
(* one; link: Some href of the first a[href], None without one; img: Some  *)
(* src of the first img[src], None without one; data_cat: the              *)
(* data-product_cat attribute, "" without one; class: the class tokens.    *)

Row(cat, name, price, url, image) ==
    [category |-> cat, name |-> name, price |-> price, url |-> url, image |-> image]

\* one pass of the loop body of _parse_cards, lines 84-98: the rows after it
_parse_card(rws, card, shop_url) ==
    IF card.name_el = None \/ card.price_el = None \/ card.link = None
    THEN rws
    ELSE LET price == parse_price(card.price_el[1])
         IN  IF ~price.ok THEN rws
             ELSE Append(rws,
                         Row(IF card.data_cat # "" THEN card.data_cat ELSE card.class[1],
                             strip(card.name_el[1]),
                             Some(price.val),
                             urljoin(shop_url, card.link[1]),
                             IF card.img = None THEN "" ELSE card.img[1]))

RECURSIVE _parse_cards(_, _, _)
\* _parse_cards(sp), lines 82-98: rows after every card of the page, in order
_parse_cards(rws, cards, shop_url) ==
    IF cards = <<>> THEN rws
    ELSE _parse_cards(_parse_card(rws, cards[1], shop_url), Tail(cards), shop_url)

\* a faulty clamp: the caller's limit alone, whatever was discovered
total_pages_limit_only(last, max_pages) ==
    IF max_pages # None /\ max_pages[1] # 0 THEN max_pages[1] ELSE last

\* line 102: min(_last_page(first), max_pages) if max_pages else _last_page(first)
total_pages(last, max_pages) ==
    IF max_pages # None /\ max_pages[1] # 0
    THEN (IF last <= max_pages[1] THEN last ELSE max_pages[1])
    ELSE last

\* a faulty handler: a failed page ends the crawl
after_failed_page_stop(l) == [l EXCEPT !.p = l.total + 1]

\* lines 104, 109-110: the loop goes on to the next page after a failure
after_failed_page(l) == [l EXCEPT !.p = l.p + 1]

\* Catalogue pages the shop may serve.
Tee == <<"T", "e", "e">>
Mug == <<"M", "u", "g">>
ShopOrigin == "https://shop.example"

WooCards ==
    { \* a complete card, price text "R1,299.50", rooted link
      [name_el |-> Some(Tee), price_el |-> Some(<<"R", "1", ",", "2", "9", "9", ".", "5", "0">>),
       link |-> Some(RootRef(<<"product", "tee">>)), img |-> Some("tee.png"),
       data_cat |-> "shirts", class |-> <<"product", "type-product">>],
      \* no data attribute, relative link, padded name, price "-5"
      [name_el |-> Some(<<" ">> \o Mug \o <<" ">>), price_el |-> Some(<<"-", "5">>),
       link |-> Some(RelRef(<<"mug">>)), img |-> None,
       data_cat |-> "", class |-> <<"product">>],
      \* price text without a number ("Call")
      [name_el |-> Some(Mug), price_el |-> Some(<<"C", "a", "l", "l">>),
       link |-> Some(RootRef(<<"product", "mug">>)), img |-> None,
       data_cat |-> "", class |-> <<"product">>],
      \* a title element with blank text
      [name_el |-> Some(<<" ">>), price_el |-> Some(<<"7">>),
       link |-> Some(EmptyRef), img |-> None,
       data_cat |-> "misc", class |-> <<"product">>],
      \* no price element
      [name_el |-> Some(Tee), price_el |-> None,
       link |-> Some(RootRef(<<"product", "tee">>)), img |-> Some("tee.png"),
       data_cat |-> "shirts", class |-> <<"product">>] }

Next_ == <<"N", "e", "x", "t">>

\* pagers of a first page: none, the numbered list, and malformed ones
WooPagers ==
    { None, Some(<<>>), Some(<<Next_>>), Some(<< <<"1">>, <<"2">>, <<"3">>, Next_ >>),
      Some(<< <<"2">>, <<"1">> >>), Some(<< <<"0">> >>), Some(<< <<"sup2">>, <<"3">> >>) }

WooSoups == [cards : SeqsUpTo(WooCards, MaxCards), pager : WooPagers]
\* pages 2.. : their pager is never read
WooLaterSoups == [cards : SeqsUpTo(WooCards, MaxCards), pager : {None}]

ShopUrls ==
    { Url(ShopOrigin, <<"shop", "">>, <<>>),
      Url(ShopOrigin, <<"shop", "">>, << <<"orderby", <<"p">>>>, <<"paged", <<"7">>>> >>) }

WooInit ==
    /\ adapter = "woocommerce"
    /\ args \in [shop_url : ShopUrls, max_pages : {None} \cup {Some(n) : n \in 0..MaxLimit}]
    /\ pc = "start"
    /\ loc = [total |-> 0, p |-> 0, last |-> 0]
    /\ rows = <<>>
    /\ exc = NoException
    /\ requests = <<>>
    /\ responses = <<>>
    /\ stdout = <<>>

\* lines 100-102: fetch and parse the first page, discover the page count
WooFirstPage ==
    /\ adapter = "woocommerce" /\ pc = "start"
    /\ \E r \in {FetchError, ParseError} \cup {Ok(b) : b \in WooSoups} :
          /\ requests' = Append(requests, args.shop_url)
          /\ responses' = Append(responses, r)
          /\ IF ~r.ok
             THEN /\ exc' = r.exc /\ pc' = "raised"
                  /\ UNCHANGED <<rows, loc>>
             ELSE LET last == _last_page(r.val)
                  IN  /\ rows' = _parse_cards(rows, r.val.cards, args.shop_url)
                      /\ IF last.ok
                         THEN /\ loc' = [total |-> total_pages(last.val, args.max_pages),
                                         p |-> 2, last |-> last.val]
                              /\ pc' = "loop" /\ exc' = exc
                         ELSE /\ exc' = last.exc /\ pc' = "raised" /\ loc' = loc
    /\ UNCHANGED <<adapter, args, stdout>>

\* lines 104-110: one pass of the loop over pages 2..total
WooNextPage ==
    /\ adapter = "woocommerce" /\ pc = "loop" /\ loc.p <= loc.total
    /\ \E r \in {FetchError, ParseError} \cup {Ok(b) : b \in WooLaterSoups} :
          /\ requests' = Append(requests, _next_page_url(args.shop_url, loc.p))
          /\ responses' = Append(responses, r)
          /\ IF ~r.ok
             THEN /\ stdout' = Append(stdout, [page |-> str(loc.p), e |-> r.exc])
                  /\ loc' = after_failed_page(loc)
                  /\ rows' = rows
             ELSE /\ rows' = _parse_cards(rows, r.val.cards, args.shop_url)
                  /\ loc' = [loc EXCEPT !.p = loc.p + 1]
                  /\ stdout' = stdout
    /\ UNCHANGED <<adapter, args, pc, exc>>

\* lines 112-113: the loop is over, the rows are returned
WooReturn ==
    /\ adapter = "woocommerce" /\ pc = "loop" /\ loc.p > loc.total
    /\ pc' = "done"
    /\ UNCHANGED <<adapter, args, loc, rows, exc, requests, responses, stdout>>

WooNext == WooFirstPage \/ WooNextPage \/ WooReturn

SpecWoo == WooInit /\ [][WooNext]_vars

----------------------------------------------------------------------------
(* scrape_shopify.  A sitemap body is the sequence of its <loc> texts (a   *)
(* body that is no sitemap has none).  A product body is                   *)
(*   [json |-> FALSE]                    not JSON: .json() raises          *)
(*   [json |-> TRUE, object |-> FALSE]   JSON, but no object (null, list)  *)
(*   [json |-> TRUE, object |-> TRUE, title, type, variants, images]       *)
(* with each key Absent, Null or Val(v).  A variant is [price |-> None]    *)
(* (no price key) or [price |-> Some(minor units)].                        *)

Absent == [is |-> "absent"]
Null == [is |-> "null"]
Val(v) == [is |-> "value", v |-> v]

Uncategorised ==
    <<"U", "n", "c", "a", "t", "e", "g", "o", "r", "i", "s", "e", "d">>

StoreOrigin == "https://store.example"
StoreUrl == Url(StoreOrigin, <<>>, <<>>)

\* "sitemap_products" in loc.text, for the file names a store serves
HasProductsMarker(u) ==
    \E i \in 1..Len(u.path) : u.path[i] \in {"sitemap_products_1.xml", "sitemap_products_2.xml"}

\* the host of an origin, for the origins of the model
Host(origin) ==
    CASE origin = StoreOrigin -> "store.example"
      [] origin = ShopOrigin  -> "shop.example"
      [] OTHER                -> "demo.site"

\* Path(loc.text).name: the last component, slashes at the end dropped
PathName(u) ==
    LET parts == SelectSeq(u.path, LAMBDA seg : seg # "")
    IN  IF parts = <<>> THEN Host(u.origin) ELSE parts[Len(parts)]

\* f"{handle}.js", for the handles of the model
JsName(handle) ==
    CASE handle = "tee" -> "tee.js"
      [] handle = "mug" -> "mug.js"
      [] OTHER          -> "store.example.js"

\* _find_sitemaps, line 40: the <loc> texts that carry the marker
_find_sitemaps(locs) == SelectSeq(locs, HasProductsMarker)

\* _extract_handles, line 44
_extract_handles(locs) == [i \in 1..Len(locs) |-> PathName(locs[i])]

\* a faulty price: the first variant's instead of the cheapest
variants_price_first(variants) ==
    IF variants.is # "value" \/ variants.v = <<>> THEN Ok(None)
    ELSE IF \E i \in 1..Len(variants.v) : variants.v[i].price = None
    THEN Raise("KeyError")
    ELSE Ok(Some([n |-> variants.v[1].price[1], d |-> 100]))

\* lines 56-57: min(v["price"] for v in variants)/100 if variants else None;
\* the quotient is kept exact as n / d
variants_price(variants) ==
    IF variants.is # "value" \/ variants.v = <<>> THEN Ok(None)
    ELSE IF \E i \in 1..Len(variants.v) : variants.v[i].price = None
    THEN Raise("KeyError")
    ELSE Ok(Some([n |-> Min({variants.v[i].price[1] : i \in 1..Len(variants.v)}),
                  d |-> 100]))

\* lines 54-60 for the parsed body data: the row appended, or the exception
product_row(store_url, handle, data) ==
    IF ~data.object THEN Raise("AttributeError")
    ELSE IF data.title = Null \/ data.type = Null THEN Raise("AttributeError")
    ELSE LET price == variants_price(data.variants)
         IN  IF ~price.ok THEN price
             ELSE Ok(Row(IF data.type = Absent THEN Uncategorised ELSE strip(data.type.v),
                         IF data.title = Absent THEN <<>> ELSE strip(data.title.v),
                         price.val,
                         urljoin(store_url, RootRef(<<"products", handle>>)),
                         IF data.images.is = "value" /\ data.images.v # <<>>
                         THEN data.images.v[1] ELSE ""))

ShopifyInit ==
    /\ adapter = "shopify"
    /\ args = [store_url |-> StoreUrl]
    /\ pc = "start"
    /\ loc = [sitemaps |-> <<>>, sm |-> 0, handles |-> <<>>, handle |-> 0]
    /\ rows = <<>>
    /\ exc = NoException
    /\ requests = <<>>
    /\ responses = <<>>
    /\ stdout = <<>>

\* line 47, _find_sitemaps(store_url): lines 36-40
ShopifyFindSitemaps(answers) ==
    /\ adapter = "shopify" /\ pc = "start"
    /\ \E r \in answers :
          /\ requests' = Append(requests, urljoin(args.store_url, RootRef(<<"sitemap.xml">>)))
          /\ responses' = Append(responses, r)
          /\ IF ~r.ok
             THEN /\ exc' = r.exc /\ pc' = "raised" /\ loc' = loc
             ELSE /\ loc' = [loc EXCEPT !.sitemaps = _find_sitemaps(r.val), !.sm = 1]
                  /\ pc' = "for sm" /\ exc' = exc
    /\ UNCHANGED <<adapter, args, rows, stdout>>

\* line 48, _extract_handles(sm): lines 42-44
ShopifyExtractHandles(answers) ==
    /\ adapter = "shopify" /\ pc = "for sm" /\ loc.sm <= Len(loc.sitemaps)
    /\ \E r \in answers :
          /\ requests' = Append(requests, loc.sitemaps[loc.sm])
          /\ responses' = Append(responses, r)
          /\ IF ~r.ok
             THEN /\ exc' = r.exc /\ pc' = "raised" /\ loc' = loc
             ELSE /\ loc' = [loc EXCEPT !.handles = _extract_handles(r.val), !.handle = 1]
                  /\ pc' = "for handle" /\ exc' = exc
    /\ UNCHANGED <<adapter, args, rows, stdout>>

\* lines 49-60: one pass of the loop over the handles of a sitemap
ShopifyProduct(answers) ==
    /\ adapter = "shopify" /\ pc = "for handle" /\ loc.handle <= Len(loc.handles)
    /\ \E r \in answers :
          LET handle == loc.handles[loc.handle]
              made   == product_row(args.store_url, handle, r.val)
          IN  /\ requests' = Append(requests,
                                    urljoin(args.store_url,
                                            RootRef(<<"products", JsName(handle)>>)))
              /\ responses' = Append(responses, r)
              /\ IF ~r.ok \/ ~r.val.json
                 THEN \* except Exception: continue
                      /\ loc' = [loc EXCEPT !.handle = loc.handle + 1]
                      /\ UNCHANGED <<rows, pc, exc>>
                 ELSE IF made.ok
                 THEN /\ rows' = Append(rows, made.val)
                      /\ loc' = [loc EXCEPT !.handle = loc.handle + 1]
                      /\ UNCHANGED <<pc, exc>>
                 ELSE /\ exc' = made.exc /\ pc' = "raised"
                      /\ UNCHANGED <<rows, loc>>
    /\ UNCHANGED <<adapter, args, stdout>>

\* line 48: the handles of this sitemap are done, on to the next sitemap
ShopifyNextSitemap ==
    /\ adapter = "shopify" /\ pc = "for handle" /\ loc.handle > Len(loc.handles)
    /\ loc' = [loc EXCEPT !.sm = loc.sm + 1]
    /\ pc' = "for sm"
    /\ UNCHANGED <<adapter, args, rows, exc, requests, responses, stdout>>

\* lines 62-63
ShopifyReturn ==
    /\ adapter = "shopify" /\ pc = "for sm" /\ loc.sm > Len(loc.sitemaps)
    /\ pc' = "done"
    /\ UNCHANGED <<adapter, args, loc, rows, exc, requests, responses, stdout>>

\* What the store may answer.
SitemapUrl(name) == Url(StoreOrigin, <<name>>, <<>>)
ProductUrl(handle) == Url(StoreOrigin, <<"products", handle>>, <<>>)

SitemapIndexes ==
    { <<>>,
      <<SitemapUrl("sitemap_pages_1.xml")>>,
      <<SitemapUrl("sitemap_products_1.xml")>>,
      <<SitemapUrl("sitemap_products_1.xml"), SitemapUrl("sitemap_pages_1.xml"),
        SitemapUrl("sitemap_products_2.xml")>> }

ProductSitemaps ==
    { <<>>,
      <<Url(StoreOrigin, <<"">>, <<>>), ProductUrl("tee")>>,
      <<ProductUrl("tee"), ProductUrl("mug")>> }

NotJson == [json |-> FALSE]
NotObject == [json |-> TRUE, object |-> FALSE]
Product(title, type, variants, images) ==
    [json |-> TRUE, object |-> TRUE, title |-> title, type |-> type,
     variants |-> variants, images |-> images]

Priced(p) == [price |-> Some(p)]
Unpriced == [price |-> None]

ProductBodies ==
    { NotJson, NotObject,
      \* the payload of the expected shape, prices 199.00 and 249.00
      Product(Val(<<" ">> \o Tee), Val(<<"S">>), Val(<<Priced(24900), Priced(19900)>>),
              Val(<<"tee.png", "tee2.png">>)),
      \* an object with none of the keys
      Product(Absent, Absent, Absent, Absent),
      \* no variants, no images
      Product(Val(Mug), Absent, Val(<<>>), Val(<<>>)),
      \* a variant without a price
      Product(Val(Mug), Absent, Val(<<Priced(500), Unpriced>>), Absent),
      \* a negative price
      Product(Val(Mug), Absent, Val(<<Priced(-500)>>), Absent),
      \* "title": null
      Product(Null, Absent, Absent, Absent) }

Answers(bodies) == {FetchError} \cup {Ok(b) : b \in bodies}

ShopifyNext ==
    \/ ShopifyFindSitemaps(Answers(SitemapIndexes))
    \/ ShopifyExtractHandles(Answers(ProductSitemaps))
    \/ ShopifyProduct(Answers(ProductBodies))
    \/ ShopifyNextSitemap
    \/ ShopifyReturn

SpecShopify == ShopifyInit /\ [][ShopifyNext]_vars

\* The adapter on a store with one product sitemap of one handle, the
\* product body drawn from every object within the bounds.
VariantPrices == {-500, 0, 19900, 24900}
Variants == {Unpriced} \cup {Priced(p) : p \in VariantPrices}

GeneratedProducts ==
    { Product(title, type, variants, images) :
        title \in {Absent, Null, Val(Tee), Val(<<" ">>)},
        type \in {Absent, Val(<<"S", " ">>)},
        variants \in {Absent, Null} \cup {Val(v) : v \in SeqsUpTo(Variants, MaxVariants)},
        images \in {Absent, Val(<<>>), Val(<<"tee.png">>)} }

OneProductNext ==
    \/ ShopifyFindSitemaps({Ok(<<SitemapUrl("sitemap_products_1.xml")>>)})
    \/ ShopifyExtractHandles({Ok(<<ProductUrl("tee")>>)})
    \/ ShopifyProduct(Answers({NotJson, NotObject} \cup GeneratedProducts))
    \/ ShopifyNextSitemap
    \/ ShopifyReturn

SpecOneProduct == ShopifyInit /\ [][OneProductNext]_vars

----------------------------------------------------------------------------
(* scrape_generic.  A card (a node matching sel_prod) is                   *)
(*   [name_el, price_el, cat_el, img_el, link]                             *)
(* name_el, price_el, cat_el: Some text of the element the caller's        *)
(* selector finds in the card, None when it finds none; img_el: Some src   *)
(* attribute (itself optional) of the element found; link: Some href of    *)
(* the first a[href].  A selector is "" (empty) or a string that selects.  *)
(* soupsieve refuses an empty selector: select and select_one raise.       *)

DemoUrl == Url("https://demo.site", <<"products">>, <<>>)

\* lines 124-140, one pass: [rows, url] after the card (line 136 rebinds url)
generic_card(rws, url, card, a) ==
    IF a.sel_name = "" \/ a.sel_price = "" THEN [rows |-> rws, url |-> url]
    ELSE IF card.name_el = None \/ card.price_el = None THEN [rows |-> rws, url |-> url]
    ELSE LET cat_el == IF a.sel_cat # None /\ a.sel_cat # Some("") THEN card.cat_el ELSE None
             img_el == IF a.sel_img # None /\ a.sel_img # Some("") THEN card.img_el ELSE None
             price  == parse_price(card.price_el[1])
             joined == IF card.link # None THEN urljoin(url, card.link[1]) ELSE url
         IN  IF ~price.ok THEN [rows |-> rws, url |-> url]
             ELSE [rows |-> Append(rws,
                                   Row(IF cat_el # None THEN strip(cat_el[1]) ELSE Uncategorised,
                                       strip(card.name_el[1]),
                                       Some(price.val),
                                       joined,
                                       IF img_el # None /\ img_el[1] # None
                                       THEN img_el[1][1] ELSE "")),
                   url  |-> joined]

GenericCards ==
    { \* every element there, relative link item/tee
      [name_el |-> Some(Tee), price_el |-> Some(<<"R", "1", ",", "2", "9", "9", ".", "5", "0">>),
       cat_el |-> Some(<<"S">>), img_el |-> Some(Some("tee.png")),
       link |-> Some(RelRef(<<"item", "tee">>))],
      \* no anchor, no category, an image element without src
      [name_el |-> Some(Mug), price_el |-> Some(<<"5">>),
       cat_el |-> None, img_el |-> Some(None), link |-> None],
      \* relative link mug
      [name_el |-> Some(Mug), price_el |-> Some(<<"7", ".", "5">>),
       cat_el |-> None, img_el |-> None, link |-> Some(RelRef(<<"mug">>))],
      \* no price element
      [name_el |-> Some(Tee), price_el |-> None,
       cat_el |-> None, img_el |-> None, link |-> Some(RelRef(<<"tee">>))],
      \* price text "1.2.3", an absolute link
      [name_el |-> Some(Tee), price_el |-> Some(<<"1", ".", "2", ".", "3">>),
       cat_el |-> None, img_el |-> None,
       link |-> Some(AbsRef(Url("https://cdn.site", <<"tee">>, <<>>)))] }

GenericInit ==
    /\ adapter = "generic"
    /\ args \in [url : {DemoUrl}, sel_prod : {"", "li.card"}, sel_name : {"", ".title"},
                 sel_price : {"", ".price"}, sel_cat : {None, Some(".cat")},
                 sel_img : {None, Some("img")}]
    /\ pc = "start"
    /\ loc = [url |-> args.url, cards |-> <<>>, card |-> 0]
    /\ rows = <<>>
    /\ exc = NoException
    /\ requests = <<>>
    /\ responses = <<>>
    /\ stdout = <<>>

\* lines 120-123: fetch and parse the page, select the cards
GenericFetch ==
    /\ adapter = "generic" /\ pc = "start"
    /\ \E r \in {FetchError, ParseError}
                 \cup {Ok([cards |-> c]) : c \in SeqsUpTo(GenericCards, MaxGenericCards)} :
          /\ requests' = Append(requests, args.url)
          /\ responses' = Append(responses, r)
          /\ IF ~r.ok
             THEN /\ exc' = r.exc /\ pc' = "raised" /\ loc' = loc
             ELSE IF args.sel_prod = ""
             THEN /\ exc' = "SelectorSyntaxError" /\ pc' = "raised" /\ loc' = loc
             ELSE /\ loc' = [loc EXCEPT !.cards = r.val.cards, !.card = 1]
                  /\ pc' = "for card" /\ exc' = exc
    /\ UNCHANGED <<adapter, args, rows, stdout>>

\* lines 123-140: one pass of the loop over the cards
GenericCard ==
    /\ adapter = "generic" /\ pc = "for card" /\ loc.card <= Len(loc.cards)
    /\ LET after == generic_card(rows, loc.url, loc.cards[loc.card], args)
       IN  /\ rows' = after.rows
           /\ loc' = [loc EXCEPT !.url = after.url, !.card = loc.card + 1]
    /\ UNCHANGED <<adapter, args, pc, exc, requests, responses, stdout>>

\* lines 142-143
GenericReturn ==
    /\ adapter = "generic" /\ pc = "for card" /\ loc.card > Len(loc.cards)
    /\ pc' = "done"
    /\ UNCHANGED <<adapter, args, loc, rows, exc, requests, responses, stdout>>

GenericNext == GenericFetch \/ GenericCard \/ GenericReturn

SpecGeneric == GenericInit /\ [][GenericNext]_vars

----------------------------------------------------------------------------
(* _last_page on its own, over every pager within the bounds.              *)

PagerChars == {"0", "1", "2", "N", "sup2"}
Labels == SeqsUpTo(PagerChars, MaxLabelLen)
Pagers == {None} \cup {Some(links) : links \in SeqsUpTo(Labels, MaxLinks)}
                 \cup {Some(<< <<"1">>, <<"2">>, <<"3">>, Next_ >>)}

LastPageInit ==
    /\ adapter = "_last_page"
    /\ args \in [soup : [cards : {<<>>}, pager : Pagers]]
    /\ pc = "start"
    /\ loc = [result |-> Ok(0)]
    /\ rows = <<>>
    /\ exc = NoException
    /\ requests = <<>>
    /\ responses = <<>>
    /\ stdout = <<>>

\* lines 74-77
LastPageCall ==
    /\ adapter = "_last_page" /\ pc = "start"
    /\ LET result == _last_page(args.soup)
       IN  IF result.ok
           THEN /\ loc' = [result |-> result] /\ pc' = "done" /\ exc' = exc
           ELSE /\ loc' = loc /\ pc' = "raised" /\ exc' = result.exc
    /\ UNCHANGED <<adapter, args, rows, requests, responses, stdout>>

SpecLastPage == LastPageInit /\ [][LastPageCall]_vars

----------------------------------------------------------------------------
(* main_cli, lines 222-228: the caller runs one of the three adapters.     *)

Init == WooInit \/ ShopifyInit \/ GenericInit

Next == WooNext \/ ShopifyNext \/ GenericNext

Spec == Init /\ [][Next]_vars

----------------------------------------------------------------------------
(* The claims.                                                             *)

\* the responses to the requests for pages 2.. that failed, as page numbers
FailedPages == {k \in 2..Len(responses) : ~responses[k].ok}

\* the page each request of scrape_woocommerce asks for: the first request
\* is the caller's URL, page 1; a later one is read off its paged parameter
RequestedPages ==
    [i \in 1..Len(requests) |-> IF i = 1 THEN 1 ELSE PageOf(requests[i])]

RECURSIVE RowsOfPages(_, _)
\* the records of the pages that were fetched and parsed, in fetch order
RowsOfPages(answers, shop_url) ==
    IF answers = <<>> THEN <<>>
    ELSE (IF answers[1].ok THEN _parse_cards(<<>>, answers[1].val.cards, shop_url) ELSE <<>>)
             \o RowsOfPages(Tail(answers), shop_url)

\* C1: a transport failure of any fetch of any adapter only skips that
\* page, product or handle; the adapter never ends with the error.
C1_TransportFailureNeverAborts ==
    ~(pc = "raised" /\ exc = "ConnectionError")

ClaimedLastPage ==
    IF args.max_pages # None /\ args.max_pages[1] > 0
    THEN Min({loc.last, args.max_pages[1]})
    ELSE loc.last

\* C5 as stated: the pages requested are exactly 1..min(D, L) (1..D when L
\* is 0 or absent), once each, in ascending order.
C5_PagesAreOneToClampedCount ==
    (adapter = "woocommerce" /\ pc = "done") =>
        /\ requests # <<>> => requests[1] = args.shop_url
        /\ RequestedPages = [i \in 1..ClaimedLastPage |-> i]

\* C5 amended: page 1 is always requested; the pages requested are exactly
\* 1..max(1, min(D, L)) (1..max(1, D) when L is 0 or absent), once each, in
\* ascending order.
C5_PagesAreOneToClampedCountAtLeastOne ==
    (adapter = "woocommerce" /\ pc = "done") =>
        /\ requests[1] = args.shop_url
        /\ RequestedPages = [i \in 1..Max({1, ClaimedLastPage}) |-> i]

\* C5 witness: three pages discovered, a limit of 2, pages 1 and 2 requested
C5_Witness ==
    /\ adapter = "woocommerce" /\ pc = "done"
    /\ loc.last = 3 /\ args.max_pages = Some(2)
    /\ RequestedPages = <<1, 2>>
    /\ requests[2].query = << <<"orderby", <<"p">>>>, <<"paged", <<"2">>>> >>

\* C3: every record any adapter emits has a non-empty name and an absolute
\* url.
C3_RowsHaveNameAndAbsoluteUrl ==
    \A i \in 1..Len(rows) : rows[i].name # <<>> /\ IsAbsolute(rows[i].url)

\* C4: (scrape_shopify) a product payload that fails to fetch or is not of
\* the expected shape only skips its handle: the adapter does not end with
\* the exception the payload caused.
C4_BadPayloadOnlySkipsHandle ==
    adapter = "shopify" => exc \notin {"AttributeError", "KeyError"}

\* whether scrape_generic emits a record for the card
Emitted(card) ==
    /\ args.sel_name # "" /\ args.sel_price # ""
    /\ card.name_el # None /\ card.price_el # None
    /\ parse_price(card.price_el[1]).ok

\* C6: (scrape_generic) every record's url is the card's link resolved
\* against the page URL the caller supplied, and that page URL itself for a
\* card without an anchor, whatever cards came before.
C6_LinksResolveAgainstCallerUrl ==
    (adapter = "generic" /\ pc \in {"for card", "done"}) =>
        LET seen == SelectSeq(SubSeq(loc.cards, 1, loc.card - 1), Emitted)
        IN  /\ Len(rows) = Len(seen)
            /\ \A i \in 1..Len(rows) :
                  rows[i].url = IF seen[i].link = None THEN args.url
                                ELSE urljoin(args.url, seen[i].link[1])

\* C7: (scrape_generic) with an empty product, name or price selector the
\* call fails before any fetch is issued and returns no record sequence.
C7_EmptySelectorFailsBeforeFetch ==
    (adapter = "generic" /\ "" \in {args.sel_prod, args.sel_name, args.sel_price}) =>
        requests = <<>> /\ pc # "done"

\* text of ASCII decimal digits only
PurelyNumeric(t) == Len(t) > 0 /\ \A i \in 1..Len(t) : t[i] \in DecimalDigits

\* C8: _last_page returns the largest integer among the pager links whose
\* text is purely numeric, and 1 without a pager or without such a link.
C8_LastPageIsMaxNumericLink ==
    (adapter = "_last_page" /\ pc # "start") =>
        LET links == IF args.soup.pager = None THEN <<>> ELSE args.soup.pager[1]
            nums  == {DecimalValue(links[i]) : i \in {j \in 1..Len(links) : PurelyNumeric(links[j])}}
        IN  /\ pc = "done"
            /\ loc.result.val = IF nums = {} THEN 1 ELSE Max(nums)

\* C9: the price of every record any adapter emits is absent or a finite
\* value >= 0.
C9_PriceAbsentOrNonNegative ==
    \A i \in 1..Len(rows) :
        rows[i].price = None \/ (rows[i].price[1].n >= 0 /\ rows[i].price[1].d > 0)

\* the product body scrape_shopify was served has the expected shape
ExpectedShape(body) ==
    /\ body.json /\ body.object
    /\ body.title # Null /\ body.type # Null
    /\ body.variants.is = "value" =>
          \A i \in 1..Len(body.variants.v) : body.variants.v[i].price # None

\* C10: (scrape_shopify) for a payload that parsed, the record's price is
\* the smallest variant price divided by 100 when there are variants, and
\* absent, the record still emitted, when the list is empty or missing.
C10_PriceIsMinVariantOverHundred ==
    (adapter = "shopify" /\ Len(responses) = 3 /\ responses[3].ok
        /\ ExpectedShape(responses[3].val)) =>
        LET body   == responses[3].val
            prices == IF body.variants.is = "value"
                      THEN {body.variants.v[i].price[1] : i \in 1..Len(body.variants.v)}
                      ELSE {}
        IN  /\ Len(rows) = 1
            /\ prices = {} => rows[1].price = None
            /\ prices # {} =>
                  /\ rows[1].price # None
                  /\ \E m \in prices :
                        /\ \A q \in prices : m <= q
                        /\ rows[1].price[1].n * 100 = m * rows[1].price[1].d

\* C10 witness: variants at 24900 and 19900 minor units give 199.00
C10_Witness ==
    /\ adapter = "shopify" /\ Len(responses) = 3 /\ responses[3].ok
    /\ ExpectedShape(responses[3].val)
    /\ responses[3].val.variants = Val(<<Priced(24900), Priced(19900)>>)
    /\ Len(rows) = 1 /\ rows[1].price = Some([n |-> 19900, d |-> 100])

====
